---- MODULE Spec2Model ----
(***************************************************************************)
(* Model of vibe-diff-api (src/main.py): the three comparison endpoints    *)
(* POST /json-diff (deep_diff), POST /diff (difflib.unified_diff plus the  *)
(* addition/deletion counters) and POST /similarity (SequenceMatcher).     *)
(* The service keeps no state between requests; the state of the model is  *)
(* the last request served and the response returned for it.               *)
(*                                                                         *)
(* Text (str) values are sequences of one-character strings, so that       *)
(* concatenation, prefixes and line splitting are computed, not assumed.   *)
(***************************************************************************)
EXTENDS Integers, Sequences, FiniteSets, TLC

VARIABLES op, request, response

vars == <<op, request, response>>

(***************************************************************************)
(* Bounds of the explored inputs.                                          *)
(***************************************************************************)
MaxNum == 2
MaxKeys == 2
MaxListLen == 2

(***************************************************************************)
(* Python values as parsed from the JSON body: t is type(obj), v the       *)
(* payload. JSON null is None, JSON numbers are int or float depending on  *)
(* how they were written (1 vs 1.0); a float payload n stands for n.0.     *)
(***************************************************************************)
NoneV == [t |-> "NoneType", v |-> 0]
BoolV(b) == [t |-> "bool", v |-> b]
IntV(n) == [t |-> "int", v |-> n]
FloatV(n) == [t |-> "float", v |-> n]
StrV(s) == [t |-> "str", v |-> s]
ListV(items) == [t |-> "list", v |-> items]
DictV(f) == [t |-> "dict", v |-> f]

ROOT == <<"r", "o", "o", "t">>

Max(x, y) == IF x >= y THEN x ELSE y

Min(x, y) == IF x <= y THEN x ELSE y

Digit(d) ==
  CASE d = 0 -> "0" [] d = 1 -> "1" [] d = 2 -> "2" [] d = 3 -> "3"
    [] d = 4 -> "4" [] d = 5 -> "5" [] d = 6 -> "6" [] d = 7 -> "7"
    [] d = 8 -> "8" [] d = 9 -> "9"

RECURSIVE IntToStr(_)
IntToStr(i) == IF i < 10 THEN <<Digit(i)>> ELSE IntToStr(i \div 10) \o <<Digit(i % 10)>>

(***************************************************************************)
(* deep_diff, src/main.py:60-120.                                          *)
(***************************************************************************)
JsonDiffItem(path, type, old_value, new_value) ==
  [path |-> path, type |-> type, old_value |-> old_value, new_value |-> new_value]

\* `path or "root"`: the empty string is falsy
PathOrRoot(path) == IF path = <<>> THEN ROOT ELSE path

TypeMismatch(obj1, obj2) == obj1.t # obj2.t

ChangedItem(obj1, obj2, path) == JsonDiffItem(PathOrRoot(path), "changed", obj1, obj2)

ScalarDiffAlways(obj1, obj2, path) == <<ChangedItem(obj1, obj2, path)>>

ScalarDiff(obj1, obj2, path) ==
  IF obj1 # obj2 THEN <<ChangedItem(obj1, obj2, path)>> ELSE <<>>

\* f"{path}.{key}" if path else key
KeyPath(path, key) == IF path # <<>> THEN path \o <<".">> \o key ELSE key

\* f"{path}[{i}]"
IndexPath(path, i) == path \o <<"[">> \o IntToStr(i) \o <<"]">>

\* a key of the union that one side lacks
KeyItem(obj1, obj2, key, new_path) ==
  IF key \notin DOMAIN obj1.v
    THEN JsonDiffItem(new_path, "added", NoneV, obj2.v[key])
    ELSE JsonDiffItem(new_path, "removed", obj1.v[key], NoneV)

\* an index i (0-based) that one side lacks
IndexItemSwapped(obj1, obj2, i, new_path) ==
  IF i >= Len(obj1.v)
    THEN JsonDiffItem(new_path, "removed", NoneV, obj2.v[i + 1])
    ELSE JsonDiffItem(new_path, "added", obj1.v[i + 1], NoneV)

IndexItem(obj1, obj2, i, new_path) ==
  IF i >= Len(obj1.v)
    THEN JsonDiffItem(new_path, "added", NoneV, obj2.v[i + 1])
    ELSE JsonDiffItem(new_path, "removed", obj1.v[i + 1], NoneV)

(***************************************************************************)
(* deep_diff returns the SET of lists the call can return: the keys of a   *)
(* dict pair are visited in the iteration order of a Python set of str,    *)
(* which depends on the process's hash seed, so every order is possible.   *)
(***************************************************************************)
RECURSIVE deep_diff(_, _, _), DictWalk(_, _, _, _), ListWalk(_, _, _, _)
deep_diff(obj1, obj2, path) ==
  IF TypeMismatch(obj1, obj2) THEN {<<ChangedItem(obj1, obj2, path)>>}
  ELSE IF obj1.t = "dict"
    THEN DictWalk(obj1, obj2, path, DOMAIN obj1.v \cup DOMAIN obj2.v)
  ELSE IF obj1.t = "list" THEN ListWalk(obj1, obj2, path, 0)
  ELSE {ScalarDiff(obj1, obj2, path)}

DictWalk(obj1, obj2, path, all_keys) ==
  IF all_keys = {} THEN {<<>>}
  ELSE UNION {
    LET new_path == KeyPath(path, key)
        here == IF key \notin DOMAIN obj1.v \/ key \notin DOMAIN obj2.v
                  THEN {<<KeyItem(obj1, obj2, key, new_path)>>}
                  ELSE deep_diff(obj1.v[key], obj2.v[key], new_path)
    IN {h \o r : h \in here, r \in DictWalk(obj1, obj2, path, all_keys \ {key})}
    : key \in all_keys}

ListWalk(obj1, obj2, path, i) ==
  IF i >= Max(Len(obj1.v), Len(obj2.v)) THEN {<<>>}
  ELSE
    LET new_path == IndexPath(path, i)
        here == IF i >= Len(obj1.v) \/ i >= Len(obj2.v)
                  THEN {<<IndexItem(obj1, obj2, i, new_path)>>}
                  ELSE deep_diff(obj1.v[i + 1], obj2.v[i + 1], new_path)
    IN {h \o r : h \in here, r \in ListWalk(obj1, obj2, path, i + 1)}

(***************************************************************************)
(* The JSON bodies explored.                                               *)
(***************************************************************************)
KeyEmpty == <<>>
KeyA == <<"a">>
KeyB == <<"b">>
KeyADotA == <<"a", ".", "a">>
Keys == {KeyEmpty, KeyA, KeyADotA, ROOT}

Scalars ==
  {NoneV, BoolV(TRUE), FloatV(1), StrV(<<"1">>)} \cup {IntV(n) : n \in 1..MaxNum}

Leaves == {IntV(1), IntV(2), StrV(<<"1">>)}

SeqsUpTo(S, n) == UNION {[1..k -> S] : k \in 0..n}

DictsOver(K, V, n) ==
  UNION {{DictV(f) : f \in [D -> V]} : D \in {X \in SUBSET K : Cardinality(X) <= n}}

FlatDicts == DictsOver(Keys, Leaves, MaxKeys)
FlatLists == {ListV(s) : s \in SeqsUpTo(Leaves, MaxListLen)}

\* containers of at most one leaf, used as the nested level
Inner == DictsOver({KeyA}, Leaves, 1) \cup {ListV(s) : s \in SeqsUpTo(Leaves, 1)}

\* a dict holding one inner container and at most one leaf beside it
NestedDicts ==
  UNION {{DictV(f) : f \in {g \in [D -> Inner \cup Leaves] :
                              Cardinality({k \in D : g[k] \in Inner}) = 1}}
         : D \in {X \in SUBSET Keys : Cardinality(X) \in 1..2 /\ X \cap {KeyEmpty, KeyA} # {}}}

NestedLists == {ListV(<<x>>) : x \in Inner}

JsonValues == Scalars \cup FlatDicts \cup FlatLists \cup NestedDicts \cup NestedLists

\* the worked examples of the specification's testable properties
Ex123 == ListV(<<IntV(1), IntV(2), IntV(3)>>)
Ex0123 == ListV(<<IntV(0), IntV(1), IntV(2), IntV(3)>>)
ExA1 == DictV((KeyA :> IntV(1)))
ExA1B2 == DictV((KeyA :> IntV(1)) @@ (KeyB :> IntV(2)))
ExA1B3 == DictV((KeyA :> IntV(1)) @@ (KeyB :> IntV(3)))
JsonExamples == {<<Ex123, Ex0123>>, <<Ex0123, Ex123>>, <<ExA1B2, ExA1B3>>,
                 <<ExA1, ExA1B2>>, <<ExA1B2, ExA1>>}

JsonInputs == (JsonValues \X JsonValues) \cup JsonExamples

(***************************************************************************)
(* POST /json-diff, src/main.py:165-176.                                   *)
(***************************************************************************)
JsonDiffResponse(differences) ==
  [differences |-> differences,
   has_changes |-> Len(differences) > 0,
   total_changes |-> Len(differences)]

json_diff ==
  /\ op = "json-diff"
  /\ response = NoneV
  /\ \E differences \in deep_diff(request.json1, request.json2, <<>>) :
       response' = JsonDiffResponse(differences)
  /\ UNCHANGED <<op, request>>

\* a request body has been parsed and its handler has not run yet
InitJson ==
  /\ op = "json-diff"
  /\ \E in \in JsonInputs : request = [json1 |-> in[1], json2 |-> in[2]]
  /\ response = NoneV

NextJson == json_diff

SpecJson == InitJson /\ [][NextJson]_vars


(***************************************************************************)
(* difflib.SequenceMatcher(None, a, b) as the handlers use it (no junk     *)
(* predicate; the autojunk heuristic only acts on sequences of 200 or more *)
(* elements). Indices are Python's: 0-based, a[lo:hi] excludes hi.         *)
(***************************************************************************)
Slice(s, lo, hi) == SubSeq(s, lo + 1, hi)

\* the longest block a[i:i+k] == b[j:j+k] inside a[alo:ahi], b[blo:bhi];
\* of the longest, the one starting earliest in a, then earliest in b
CommonBlocks(a, b, alo, ahi, blo, bhi) ==
  {c \in (alo..(ahi - 1)) \X (blo..(bhi - 1)) \X (1..Min(ahi - alo, bhi - blo)) :
     /\ c[1] + c[3] <= ahi
     /\ c[2] + c[3] <= bhi
     /\ \A d \in 0..(c[3] - 1) : a[c[1] + d + 1] = b[c[2] + d + 1]}

BestBlock(blocks, alo, blo) ==
  IF blocks = {} THEN <<alo, blo, 0>>
  ELSE CHOOSE c \in blocks :
         \A d \in blocks :
           \/ c[3] > d[3]
           \/ c[3] = d[3] /\ c[1] < d[1]
           \/ c[3] = d[3] /\ c[1] = d[1] /\ c[2] <= d[2]

find_longest_match(a, b, alo, ahi, blo, bhi) ==
  BestBlock(CommonBlocks(a, b, alo, ahi, blo, bhi), alo, blo)

\* the blocks found in a[alo:ahi], b[blo:bhi], sorted
RECURSIVE FoundBlocks(_, _, _, _, _, _), BlocksAround(_, _, _, _, _, _, _)
FoundBlocks(a, b, alo, ahi, blo, bhi) ==
  BlocksAround(a, b, alo, ahi, blo, bhi, find_longest_match(a, b, alo, ahi, blo, bhi))

\* x = (i, j, k) is the longest match of the range: if it is not empty, the
\* ranges left and right of it are searched in turn
BlocksAround(a, b, alo, ahi, blo, bhi, x) ==
  IF x[3] = 0 THEN <<>>
  ELSE (IF alo < x[1] /\ blo < x[2] THEN FoundBlocks(a, b, alo, x[1], blo, x[2]) ELSE <<>>)
       \o <<x>>
       \o (IF x[1] + x[3] < ahi /\ x[2] + x[3] < bhi
             THEN FoundBlocks(a, b, x[1] + x[3], ahi, x[2] + x[3], bhi) ELSE <<>>)

\* adjacent blocks are collapsed into one
RECURSIVE Collapse(_, _, _)
Collapse(blocks, n, cur) ==
  IF n > Len(blocks) THEN (IF cur[3] # 0 THEN <<cur>> ELSE <<>>)
  ELSE LET x == blocks[n]
       IN IF cur[1] + cur[3] = x[1] /\ cur[2] + cur[3] = x[2]
            THEN Collapse(blocks, n + 1, <<cur[1], cur[2], cur[3] + x[3]>>)
            ELSE (IF cur[3] # 0 THEN <<cur>> ELSE <<>>) \o Collapse(blocks, n + 1, x)

get_matching_blocks(a, b) ==
  Collapse(FoundBlocks(a, b, 0, Len(a), 0, Len(b)), 1, <<0, 0, 0>>)
    \o <<<<Len(a), Len(b), 0>>>>

Opcode(tag, i1, i2, j1, j2) == [tag |-> tag, i1 |-> i1, i2 |-> i2, j1 |-> j1, j2 |-> j2]

RECURSIVE OpcodesFrom(_, _, _, _)
OpcodesFrom(blocks, n, i, j) ==
  IF n > Len(blocks) THEN <<>>
  ELSE LET ai == blocks[n][1]
           bj == blocks[n][2]
           size == blocks[n][3]
           tag == IF i < ai /\ j < bj THEN "replace"
                  ELSE IF i < ai THEN "delete"
                  ELSE IF j < bj THEN "insert"
                  ELSE ""
       IN (IF tag # "" THEN <<Opcode(tag, i, ai, j, bj)>> ELSE <<>>)
          \o (IF size # 0 THEN <<Opcode("equal", ai, ai + size, bj, bj + size)>> ELSE <<>>)
          \o OpcodesFrom(blocks, n + 1, ai + size, bj + size)

get_opcodes(a, b) == OpcodesFrom(get_matching_blocks(a, b), 1, 0, 0)

\* the loop of get_grouped_opcodes: the groups closed so far are returned
\* followed by the group still open
RECURSIVE GroupLoop(_, _, _, _)
GroupLoop(codes, c, n, group) ==
  IF c > Len(codes)
    THEN IF group # <<>> /\ ~(Len(group) = 1 /\ group[1].tag = "equal")
           THEN <<group>> ELSE <<>>
  ELSE LET x == codes[c]
       IN IF x.tag = "equal" /\ x.i2 - x.i1 > n + n
            THEN <<Append(group, Opcode(x.tag, x.i1, Min(x.i2, x.i1 + n),
                                        x.j1, Min(x.j2, x.j1 + n)))>>
                 \o GroupLoop(codes, c + 1, n,
                              <<Opcode(x.tag, Max(x.i1, x.i2 - n), x.i2,
                                       Max(x.j1, x.j2 - n), x.j2)>>)
            ELSE GroupLoop(codes, c + 1, n, Append(group, x))

\* if not codes: codes = [("equal", 0, 1, 0, 1)]
NonEmptyCodes(codes) == IF codes = <<>> THEN <<Opcode("equal", 0, 1, 0, 1)>> ELSE codes

\* a leading group that shows no change keeps its last n lines
TrimLeading(codes, n) ==
  LET f == codes[1]
  IN IF f.tag = "equal"
       THEN [codes EXCEPT ![1] =
               Opcode(f.tag, Max(f.i1, f.i2 - n), f.i2, Max(f.j1, f.j2 - n), f.j2)]
       ELSE codes

\* a trailing group that shows no change keeps its first n lines
TrimTrailing(codes, n) ==
  LET l == codes[Len(codes)]
  IN IF l.tag = "equal"
       THEN [codes EXCEPT ![Len(codes)] =
               Opcode(l.tag, l.i1, Min(l.i2, l.i1 + n), l.j1, Min(l.j2, l.j1 + n))]
       ELSE codes

get_grouped_opcodes(a, b, n) ==
  GroupLoop(TrimTrailing(TrimLeading(NonEmptyCodes(get_opcodes(a, b)), n), n), 1, n, <<>>)

(***************************************************************************)
(* difflib.unified_diff(lines1, lines2, fromfile="text1", tofile="text2",  *)
(* n=context_lines). Every output line is kept with the role it was        *)
(* emitted in; the rendered list the caller sees is the text alone.        *)
(***************************************************************************)
NL == "\n"

_format_range_unified(start, stop) ==
  LET beginning == start + 1
      length == stop - start
  IN IF length = 1 THEN IntToStr(beginning)
     ELSE IntToStr(IF length = 0 THEN beginning - 1 ELSE beginning)
          \o <<",">> \o IntToStr(length)

FromFileLine == <<"-", "-", "-", " ", "t", "e", "x", "t", "1", NL>>
ToFileLine == <<"+", "+", "+", " ", "t", "e", "x", "t", "2", NL>>

Tagged(tag, text) == [tag |-> tag, text |-> text]

Prefixed(tag, prefix, lines) == [i \in DOMAIN lines |-> Tagged(tag, <<prefix>> \o lines[i])]

OpcodeLines(a, b, x) ==
  IF x.tag = "equal" THEN Prefixed("context", " ", Slice(a, x.i1, x.i2))
  ELSE (IF x.tag \in {"replace", "delete"}
          THEN Prefixed("removed", "-", Slice(a, x.i1, x.i2)) ELSE <<>>)
       \o (IF x.tag \in {"replace", "insert"}
             THEN Prefixed("added", "+", Slice(b, x.j1, x.j2)) ELSE <<>>)

RECURSIVE GroupLines(_, _, _, _)
GroupLines(a, b, group, c) ==
  IF c > Len(group) THEN <<>>
  ELSE OpcodeLines(a, b, group[c]) \o GroupLines(a, b, group, c + 1)

HunkHeader(group) ==
  LET first == group[1]
      last == group[Len(group)]
  IN <<"@", "@", " ", "-">> \o _format_range_unified(first.i1, last.i2)
     \o <<" ", "+">> \o _format_range_unified(first.j1, last.j2)
     \o <<" ", "@", "@", NL>>

RECURSIVE HunksFrom(_, _, _, _)
HunksFrom(a, b, groups, g) ==
  IF g > Len(groups) THEN <<>>
  ELSE <<Tagged("hunk", HunkHeader(groups[g]))>>
       \o GroupLines(a, b, groups[g], 1)
       \o HunksFrom(a, b, groups, g + 1)

\* the file header is yielded before the first group, if there is one
DiffOfGroups(a, b, groups) ==
  IF groups = <<>> THEN <<>>
  ELSE <<Tagged("file", FromFileLine), Tagged("file", ToFileLine)>>
       \o HunksFrom(a, b, groups, 1)

unified_diff(a, b, n) == DiffOfGroups(a, b, get_grouped_opcodes(a, b, n))

(***************************************************************************)
(* POST /diff, src/main.py:141-162.                                        *)
(***************************************************************************)
\* str.splitlines(keepends=True), for texts whose only line boundary is "\n"
RECURSIVE SplitFrom(_, _, _)
SplitFrom(text, start, i) ==
  IF i > Len(text)
    THEN IF start <= Len(text) THEN <<SubSeq(text, start, Len(text))>> ELSE <<>>
  ELSE IF text[i] = NL
    THEN <<SubSeq(text, start, i)>> \o SplitFrom(text, i + 1, i + 1)
  ELSE SplitFrom(text, start, i + 1)

splitlines(text) == SplitFrom(text, 1, 1)

startswith(line, prefix) ==
  Len(line) >= Len(prefix) /\ SubSeq(line, 1, Len(prefix)) = prefix

IsAdditionLine(line) == startswith(line, <<"+">>) /\ ~startswith(line, <<"+", "+", "+">>)
IsDeletionLine(line) == startswith(line, <<"-">>) /\ ~startswith(line, <<"-", "-", "-">>)

CountAdditions(diff) == Cardinality({i \in DOMAIN diff : IsAdditionLine(diff[i])})
CountDeletions(diff) == Cardinality({i \in DOMAIN diff : IsDeletionLine(diff[i])})

HasChangesAlways(diff) == Len(diff) >= 0

HasChanges(diff) == Len(diff) > 0

TextDiffResponse(diff) ==
  [diff |-> diff,
   has_changes |-> HasChanges(diff),
   additions |-> CountAdditions(diff),
   deletions |-> CountDeletions(diff)]

Rendered(tagged) == [i \in DOMAIN tagged |-> tagged[i].text]

\* the output lines of the request's diff with the role each was emitted in
RequestDiff ==
  unified_diff(splitlines(request.text1), splitlines(request.text2), request.context_lines)

text_diff ==
  /\ op = "diff"
  /\ response = NoneV
  /\ response' = TextDiffResponse(Rendered(RequestDiff))
  /\ UNCHANGED <<op, request>>

MaxLines == 3
MaxContext == 1

LineBodies == {<<"a">>, <<"+", "+">>, <<"-", "-">>}

RECURSIVE Concat(_)
Concat(ls) == IF ls = <<>> THEN <<>> ELSE Head(ls) \o Concat(Tail(ls))

\* texts of at most MaxLines lines, the last one with or without its newline
Texts ==
  LET terminated == {Concat([i \in DOMAIN bs |-> Append(bs[i], NL)])
                       : bs \in SeqsUpTo(LineBodies, MaxLines)}
  IN terminated \cup {SubSeq(t, 1, Len(t) - 1) : t \in terminated \ {<<>>}}

InitText ==
  /\ op = "diff"
  /\ \E t1 \in Texts, t2 \in Texts, n \in 0..MaxContext :
       request = [text1 |-> t1, text2 |-> t2, context_lines |-> n]
  /\ response = NoneV

NextText == text_diff

SpecText == InitText /\ [][NextText]_vars

(***************************************************************************)
(* POST /similarity, src/main.py:179-191. similarity_percent is held in    *)
(* hundredths of a percent (10000 is 100.0), which is what round(_, 2)     *)
(* leaves of ratio() * 100.                                                *)
(***************************************************************************)
RECURSIVE SumSizes(_, _)
SumSizes(blocks, n) == IF n > Len(blocks) THEN 0 ELSE blocks[n][3] + SumSizes(blocks, n + 1)

RoundHalfEven(num, den) ==
  LET q == num \div den
      r == num % den
  IN IF 2 * r > den THEN q + 1
     ELSE IF 2 * r < den THEN q
     ELSE IF q % 2 = 0 THEN q ELSE q + 1

\* round(_calculate_ratio(matches, length) * 100, 2), in hundredths
RatioPercent(matches, length) ==
  IF length # 0 THEN RoundHalfEven(2 * matches * 10000, length) ELSE 10000

MatchingBlocksUncounted(blocks) == Len(blocks)

\* max(0, len(matcher.get_matching_blocks()) - 1)
MatchingBlocks(blocks) == Max(0, Len(blocks) - 1)

SimilarityOfBlocks(text1, text2, blocks) ==
  [similarity_percent |-> RatioPercent(SumSizes(blocks, 1), Len(text1) + Len(text2)),
   matching_blocks |-> MatchingBlocks(blocks),
   text1_length |-> Len(text1),
   text2_length |-> Len(text2)]

SimilarityResponse(text1, text2) ==
  SimilarityOfBlocks(text1, text2, get_matching_blocks(text1, text2))

text_similarity ==
  /\ op = "similarity"
  /\ response = NoneV
  /\ response' = SimilarityResponse(request.text1, request.text2)
  /\ UNCHANGED <<op, request>>

MaxStrLen == 3

Strings == SeqsUpTo({"a", "b"}, MaxStrLen)

InitSimilarity ==
  /\ op = "similarity"
  /\ \E s1 \in Strings, s2 \in Strings : request = [text1 |-> s1, text2 |-> s2]
  /\ response = NoneV

NextSimilarity == text_similarity

SpecSimilarity == InitSimilarity /\ [][NextSimilarity]_vars

(***************************************************************************)
(* Vocabulary of the properties: the six JSON value kinds, JSON equality   *)
(* (a Number is one kind, compared by numeric value), and the comparison   *)
(* sites of the recursive walk with the path the specification gives them: *)
(* a map key extends the path by ".key" (just "key" at top level), a list  *)
(* index by "[i]", and a divergence at top level is reported as "root".    *)
(***************************************************************************)
Kind(x) ==
  CASE x.t = "NoneType" -> "Null"
    [] x.t = "bool" -> "Bool"
    [] x.t \in {"int", "float"} -> "Number"
    [] x.t = "str" -> "String"
    [] x.t = "list" -> "List"
    [] x.t = "dict" -> "Map"

IsScalar(x) == Kind(x) \in {"Null", "Bool", "Number", "String"}

RECURSIVE JsonEqual(_, _)
JsonEqual(a, b) ==
  /\ Kind(a) = Kind(b)
  /\ CASE Kind(a) = "Map" ->
            /\ DOMAIN a.v = DOMAIN b.v
            /\ \A k \in DOMAIN a.v : JsonEqual(a.v[k], b.v[k])
       [] Kind(a) = "List" ->
            /\ Len(a.v) = Len(b.v)
            /\ \A i \in 1..Len(a.v) : JsonEqual(a.v[i], b.v[i])
       [] OTHER -> a.v = b.v

RECURSIVE Sites(_, _, _, _)
Sites(a, b, path, top) ==
  {[a |-> a, b |-> b, path |-> path, top |-> top]} \cup
  (IF Kind(a) = "Map" /\ Kind(b) = "Map"
     THEN UNION {Sites(a.v[k], b.v[k], IF top THEN k ELSE path \o <<".">> \o k, FALSE)
                 : k \in DOMAIN a.v \cap DOMAIN b.v}
   ELSE IF Kind(a) = "List" /\ Kind(b) = "List"
     THEN UNION {Sites(a.v[i], b.v[i], path \o <<"[">> \o IntToStr(i - 1) \o <<"]">>, FALSE)
                 : i \in 1..Min(Len(a.v), Len(b.v))}
   ELSE {})

RequestSites == Sites(request.json1, request.json2, <<>>, TRUE)

SitePath(s) == IF s.top THEN ROOT ELSE s.path

Entry(path, type, old_value, new_value) ==
  [path |-> path, type |-> type, old_value |-> old_value, new_value |-> new_value]

JsonDone == op = "json-diff" /\ response # NoneV

Emitted == {response.differences[i] : i \in DOMAIN response.differences}

\* C2: no two entries of structuralDiff(a, b) carry the same full path
\* string, whatever the map keys and list indices are.
C2_PathsUnique ==
  JsonDone =>
    \A i, j \in DOMAIN response.differences :
      i # j => response.differences[i].path # response.differences[j].path

\* C3: structuralDiff(x, x) is the empty list for every JSON value x, so
\* has_changes is false and total_changes is 0.
C3_Identity ==
  (JsonDone /\ request.json1 = request.json2) =>
    /\ response.differences = <<>>
    /\ response.has_changes = FALSE
    /\ response.total_changes = 0

C3_Witness ==
  /\ JsonDone
  /\ request.json1 = request.json2
  /\ request.json1 \in NestedDicts
  /\ Cardinality(DOMAIN request.json1.v) = 2

\* C4: two scalars of the same kind yield one Changed entry (old_value = a,
\* new_value = b) when unequal and nothing when equal; Number is one kind
\* compared by numeric value, whether written as an integer or a decimal.
C4_SameKindScalars ==
  (/\ JsonDone
   /\ IsScalar(request.json1)
   /\ Kind(request.json1) = Kind(request.json2)) =>
    IF JsonEqual(request.json1, request.json2)
      THEN response.differences = <<>>
      ELSE response.differences =
             <<Entry(ROOT, "changed", request.json1, request.json2)>>

\* the number of entries when a kind mismatch is one entry and stops the walk
RECURSIVE EntryCount(_, _)
EntryCount(a, b) ==
  IF Kind(a) # Kind(b) THEN 1
  ELSE IF Kind(a) = "Map" THEN
    LET both == DOMAIN a.v \cap DOMAIN b.v
        F[S \in SUBSET both] ==
          IF S = {} THEN 0
          ELSE LET k == CHOOSE x \in S : TRUE
               IN EntryCount(a.v[k], b.v[k]) + F[S \ {k}]
    IN Cardinality((DOMAIN a.v \cup DOMAIN b.v) \ both) + F[both]
  ELSE IF Kind(a) = "List" THEN
    LET n == Min(Len(a.v), Len(b.v))
        G[i \in 0..n] == IF i = 0 THEN 0 ELSE EntryCount(a.v[i], b.v[i]) + G[i - 1]
    IN (Max(Len(a.v), Len(b.v)) - n) + G[n]
  ELSE IF a = b THEN 0 ELSE 1

\* C5: two values of different kinds compared at some path yield exactly one
\* entry for that site, Changed, at the current path ("root" at top level),
\* with old_value = a and new_value = b, and nothing nested beneath it.
C5_KindMismatch ==
  JsonDone =>
    /\ response.total_changes = EntryCount(request.json1, request.json2)
    /\ \A s \in RequestSites :
         Kind(s.a) # Kind(s.b) =>
           /\ Entry(SitePath(s), "changed", s.a, s.b) \in Emitted
           /\ s.top => response.differences = <<Entry(ROOT, "changed", s.a, s.b)>>

\* the results the map rule allows at top level: every key of the union
\* once, in any order
ClaimKeyEntries(a, b, k) ==
  IF k \notin DOMAIN b.v THEN {<<Entry(k, "removed", a.v[k], NoneV)>>}
  ELSE IF k \notin DOMAIN a.v THEN {<<Entry(k, "added", NoneV, b.v[k])>>}
  ELSE deep_diff(a.v[k], b.v[k], k)

RECURSIVE ClaimMapWalk(_, _, _)
ClaimMapWalk(a, b, keys) ==
  IF keys = {} THEN {<<>>}
  ELSE UNION {{h \o r : h \in ClaimKeyEntries(a, b, k),
                        r \in ClaimMapWalk(a, b, keys \ {k})} : k \in keys}

Reversed(e) ==
  Entry(e.path,
        IF e.type = "added" THEN "removed" ELSE IF e.type = "removed" THEN "added" ELSE e.type,
        e.new_value, e.old_value)

\* C6: for two maps every key of the union is visited once: only in a -> one
\* Removed entry with old_value = a[key]; only in b -> one Added entry with
\* new_value = b[key]; in both -> the entries of the recursive comparison at
\* the path extended by ".key" (just "key" at top level). Reversing the
\* arguments swaps Added and Removed at the same path.
C6_MapKeys ==
  JsonDone =>
    /\ (Kind(request.json1) = "Map" /\ Kind(request.json2) = "Map") =>
         /\ response.differences \in
              ClaimMapWalk(request.json1, request.json2,
                           DOMAIN request.json1.v \cup DOMAIN request.json2.v)
         /\ \A r \in deep_diff(request.json2, request.json1, <<>>) :
              {r[i] : i \in DOMAIN r} = {Reversed(e) : e \in Emitted}
    /\ \A s \in RequestSites :
         (Kind(s.a) = "Map" /\ Kind(s.b) = "Map" /\ ~s.top) =>
           /\ \A k \in DOMAIN s.a.v \ DOMAIN s.b.v :
                Entry(s.path \o <<".">> \o k, "removed", s.a.v[k], NoneV) \in Emitted
           /\ \A k \in DOMAIN s.b.v \ DOMAIN s.a.v :
                Entry(s.path \o <<".">> \o k, "added", NoneV, s.b.v[k]) \in Emitted

\* the result the list rule fixes at top level: indices in increasing order
ClaimIndexEntries(a, b, i) ==
  LET p == <<"[">> \o IntToStr(i) \o <<"]">>
  IN IF i >= Len(b.v) THEN {<<Entry(p, "removed", a.v[i + 1], NoneV)>>}
     ELSE IF i >= Len(a.v) THEN {<<Entry(p, "added", NoneV, b.v[i + 1])>>}
     ELSE deep_diff(a.v[i + 1], b.v[i + 1], p)

RECURSIVE ClaimListWalk(_, _, _)
ClaimListWalk(a, b, i) ==
  IF i >= Max(Len(a.v), Len(b.v)) THEN {<<>>}
  ELSE {h \o r : h \in ClaimIndexEntries(a, b, i), r \in ClaimListWalk(a, b, i + 1)}

\* C7: two lists are compared positionally for i = 0 .. max(len) - 1 in
\* increasing order: beyond the end of b -> Removed with old_value = a[i],
\* beyond the end of a -> Added with new_value = b[i], in both -> the
\* recursive comparison at path "[i]"; [1,2,3] against [0,1,2,3] yields
\* exactly four entries.
C7_ListPositional ==
  (JsonDone /\ Kind(request.json1) = "List" /\ Kind(request.json2) = "List") =>
    /\ response.differences \in ClaimListWalk(request.json1, request.json2, 0)
    /\ (request.json1 = Ex123 /\ request.json2 = Ex0123) => response.total_changes = 4

C7_Witness ==
  /\ JsonDone
  /\ request.json1 = Ex123
  /\ request.json2 = Ex0123
  /\ response.total_changes = 4
  /\ response.differences[4].type = "added"

\* C10: structuralDiff(a, b) is empty exactly when a equals b: it never
\* misses a difference, and reports none between equal values.
C10_EmptyIffEqual ==
  JsonDone =>
    (response.differences = <<>> <=> JsonEqual(request.json1, request.json2))

\* the half of C10 that is about missed differences
NeverMisses ==
  (JsonDone /\ ~JsonEqual(request.json1, request.json2)) =>
    (response.has_changes /\ response.total_changes > 0)


TextDone == op = "diff" /\ response # NoneV

CountTagged(tagged, tag) == Cardinality({i \in DOMAIN tagged : tagged[i].tag = tag})

TaggedCount(tag) == CountTagged(RequestDiff, tag)

\* C1: additions is the number of "added" lines listed across all hunks and
\* deletions the number of "removed" lines, file-header, hunk-header and
\* context lines excluded, whatever the text of the changed lines is.
C1_CountsMatchHunks ==
  TextDone =>
    /\ response.additions = TaggedCount("added")
    /\ response.deletions = TaggedCount("removed")

\* C8: the diff of a text against itself has no hunks: the rendered list is
\* empty, has_changes is false, additions = 0 and deletions = 0.
C8_IdenticalTexts ==
  (TextDone /\ request.text1 = request.text2) =>
    /\ response.diff = <<>>
    /\ response.has_changes = FALSE
    /\ response.additions = 0
    /\ response.deletions = 0

C8_Witness ==
  /\ TextDone
  /\ request.text1 = request.text2
  /\ Len(splitlines(request.text1)) = MaxLines
  /\ request.text1[Len(request.text1)] # NL
  /\ request.context_lines = 0

SimilarityDone == op = "similarity" /\ response # NoneV

\* C9: similarity(s, s) has ratio 100.0 for every string s, the empty one
\* included; when exactly one of the two strings is empty the ratio is 0.0
\* and the matching block count is 0.
C9_RatioBoundaries ==
  SimilarityDone =>
    /\ request.text1 = request.text2 => response.similarity_percent = 10000
    /\ (request.text1 = <<>>) # (request.text2 = <<>>) =>
         /\ response.similarity_percent = 0
         /\ response.matching_blocks = 0

C9_Witness ==
  /\ SimilarityDone
  /\ request.text1 = <<>>
  /\ Len(request.text2) = MaxStrLen
  /\ response.similarity_percent = 0
  /\ response.matching_blocks = 0

====
